---- MODULE Spec2Model ----
(***************************************************************************)
(* Data Merger V3 (src/app.py): the join engine perform_simple_merge, the  *)
(* loader read_file_with_polars with detect_file_format, the spreadsheet   *)
(* export create_excel_with_sheets, and the Streamlit script main() as a   *)
(* state machine over st.session_state, one action per user interaction    *)
(* (every interaction reruns the whole script).                            *)
(***************************************************************************)
EXTENDS Integers, Sequences, FiniteSets, TLC

VARIABLES
    pos_in,          \* SpecMerge: the pos_df argument of perform_simple_merge
    sup_in,          \* SpecMerge: the supplier_df argument
    merge_out,       \* SpecMerge: what perform_simple_merge returned (or NoResult)
    pass_in,         \* SpecTransform: the inputs of one transform pass
    pass_out,        \* SpecTransform: what the pass computed (or NoPass)
    load_in,         \* SpecLoad: the uploaded file given to the loader
    load_out,        \* SpecLoad: what read_file_with_polars returned (or NoLoad)
    export_in,       \* SpecExport: the three tables given to create_excel_with_sheets
    export_out,      \* SpecExport: the sheets it wrote (or NoExport)
    session_state,   \* Spec: st.session_state (keys: the keys it holds)
    selected_columns,\* Spec: the value of the column multiselect
    rename_inputs,   \* Spec: the value of the text input rename_<col>, per column
    shown            \* Spec: what the last run of the script rendered

mergeVars == <<pos_in, sup_in, merge_out>>
passVars == <<pass_in, pass_out>>
loadVars == <<load_in, load_out>>
exportVars == <<export_in, export_out>>
sessionVars == <<session_state, selected_columns, rename_inputs, shown>>
vars == <<mergeVars, passVars, loadVars, exportVars, sessionVars>>

(***************************************************************************)
(* Bounds                                                                  *)
(***************************************************************************)
\* Largest number of rows of an input table of perform_simple_merge.
MaxRows == 3
\* Largest number of entries of the filter list given to one transform pass.
MaxFilters == 2
\* Largest number of characters of a line of an uploaded text file.
MaxLine == 3
\* Largest number of filters the session's user adds.
MaxSessionFilters == 1
\* The most rows of a table given to create_excel_with_sheets.
MaxSheetRows == 2

(***************************************************************************)
(* Values and tables (polars DataFrame)                                    *)
(***************************************************************************)
\* A cell: null, an integer (Int64) or a string (Utf8). A string is the sequence
\* of its characters, so that casts, parses and substring tests are computed.
NullVal == [t |-> "null", n |-> 0, s |-> <<>>]
IntVal(i) == [t |-> "int", n |-> i, s |-> <<>>]
StrVal(str) == [t |-> "str", n |-> 0, s |-> str]

Digit == <<"0", "1", "2", "3", "4", "5", "6", "7", "8", "9">>

\* Decimal rendering of an integer, as the cast Int64 -> Utf8 writes it.
RECURSIVE NatToStr(_)
NatToStr(i) ==
    IF i < 10 THEN <<Digit[i + 1]>>
    ELSE NatToStr(i \div 10) \o <<Digit[(i % 10) + 1]>>

IntToStr(i) == IF i < 0 THEN <<"-">> \o NatToStr(-i) ELSE NatToStr(i)

\* pl.col(..).cast(pl.Utf8) on one cell: null stays null.
cast_utf8(v) ==
    IF v.t = "int" THEN StrVal(IntToStr(v.n)) ELSE v

\* .fill_null(lit) on one cell.
fill_null(v, lit) ==
    IF v.t = "null" THEN StrVal(lit) ELSE v

\* A DataFrame: column names, column dtypes, and rows aligned with the columns.
DataFrame(cols, dts, rws) == [columns |-> cols, dtypes |-> dts, rows |-> rws]

HasColumn(df, name) == \E i \in 1..Len(df.columns) : df.columns[i] = name

ColIndex(df, name) == CHOOSE i \in 1..Len(df.columns) : df.columns[i] = name

\* DataFrame.is_empty(): no rows.
is_empty(df) == Len(df.rows) = 0

\* df[name].to_list()
Column(df, name) ==
    LET k == ColIndex(df, name) IN [r \in 1..Len(df.rows) |-> df.rows[r][k]]

SeqRange(sq) == {sq[i] : i \in 1..Len(sq)}

(***************************************************************************)
(* perform_simple_merge                                                    *)
(***************************************************************************)
KeyColumn == "UPC"
Sentinel == <<"M", "I", "S", "S", "I", "N", "G", "_", "U", "P", "C">>

\* The mutant of CoerceKey: the cast without the null substitution.
CoerceKeyNoFill(df) ==
    LET k == ColIndex(df, KeyColumn) IN
    [columns |-> df.columns,
     dtypes  |-> [df.dtypes EXCEPT ![k] = "str"],
     rows    |-> [r \in 1..Len(df.rows) |->
                     [df.rows[r] EXCEPT ![k] = cast_utf8(@)]]]

\* df.with_columns(pl.col("UPC").cast(pl.Utf8).fill_null("MISSING_UPC"))
CoerceKey(df) ==
    LET k == ColIndex(df, KeyColumn) IN
    [columns |-> df.columns,
     dtypes  |-> [df.dtypes EXCEPT ![k] = "str"],
     rows    |-> [r \in 1..Len(df.rows) |->
                     [df.rows[r] EXCEPT ![k] = fill_null(cast_utf8(@), Sentinel)]]]

\* The positions of the right table's columns that the join keeps (all but the key).
RightKept(right) ==
    SelectSeq([i \in 1..Len(right.columns) |-> i],
              LAMBDA i : right.columns[i] # KeyColumn)

\* A kept right column whose name the left table already has gets the suffix.
RightName(left, name) ==
    IF HasColumn(left, name) THEN name \o "_right" ELSE name

\* The right rows joined to one left row, in the right table's order.
RECURSIVE JoinRow(_, _, _, _)
JoinRow(left, right, i, j) ==
    IF j > Len(right.rows) THEN <<>>
    ELSE LET lk == ColIndex(left, KeyColumn)
             rk == ColIndex(right, KeyColumn)
             kept == RightKept(right)
             rest == JoinRow(left, right, i, j + 1)
         IN IF left.rows[i][lk].t # "null" /\ left.rows[i][lk] = right.rows[j][rk]
            THEN <<left.rows[i] \o [c \in 1..Len(kept) |-> right.rows[j][kept[c]]]>>
                 \o rest
            ELSE rest

\* The mutant of JoinRows: each left row is joined to its first match only.
RECURSIVE JoinRowsFirstMatch(_, _, _)
JoinRowsFirstMatch(left, right, i) ==
    IF i > Len(left.rows) THEN <<>>
    ELSE LET m == JoinRow(left, right, i, 1) IN
         (IF m = <<>> THEN <<>> ELSE <<Head(m)>>)
         \o JoinRowsFirstMatch(left, right, i + 1)

\* The rows of left.join(right, on="UPC", how="inner"): one per matching pair
\* (a null key joins nothing).
RECURSIVE JoinRows(_, _, _)
JoinRows(left, right, i) ==
    IF i > Len(left.rows) THEN <<>>
    ELSE JoinRow(left, right, i, 1) \o JoinRows(left, right, i + 1)

\* left.join(right, on="UPC", how="inner")
join_inner(left, right) ==
    LET kept == RightKept(right) IN
    [columns |-> left.columns
                 \o [c \in 1..Len(kept) |-> RightName(left, right.columns[kept[c]])],
     dtypes  |-> left.dtypes \o [c \in 1..Len(kept) |-> right.dtypes[kept[c]]],
     rows    |-> JoinRows(left, right, 1)]

\* The mutant of FilterNotIn: keeps the rows whose key IS among the values.
FilterIn(df, vals) ==
    LET k == ColIndex(df, KeyColumn) IN
    [df EXCEPT !.rows = SelectSeq(df.rows, LAMBDA row : row[k] \in vals)]

\* df.filter(~pl.col("UPC").is_in(vals))
FilterNotIn(df, vals) ==
    LET k == ColIndex(df, KeyColumn) IN
    [df EXCEPT !.rows = SelectSeq(df.rows, LAMBDA row : row[k] \notin vals)]

NoFrame == DataFrame(<<>>, <<>>, <<>>)

\* raise ValueError(...) inside the try, re-raised as "Merge failed: ...".
MergeError(tbl, kind, text) ==
    [ok |-> FALSE, table |-> tbl, kind |-> kind, msg |-> "Merge failed: " \o text,
     merged |-> NoFrame, unmatched_pos |-> NoFrame, unmatched_supplier |-> NoFrame]

MergeOk(m, up, us) ==
    [ok |-> TRUE, table |-> "", kind |-> "", msg |-> "",
     merged |-> m, unmatched_pos |-> up, unmatched_supplier |-> us]

\* The mutant of Unmatched: the unmatched rows are cut from the table as given.
UnmatchedUncoerced(raw, coerced, merged_df) ==
    IF ~is_empty(merged_df)
    THEN FilterNotIn(coerced, SeqRange(Column(merged_df, KeyColumn)))
    ELSE raw

\* Lines 343-351: the unmatched rows of one (coerced) input. `raw` is the table
\* as it was passed in; the code has rebound the name to the coerced table.
Unmatched(raw, coerced, merged_df) ==
    IF ~is_empty(merged_df)
    THEN FilterNotIn(coerced, SeqRange(Column(merged_df, KeyColumn)))
    ELSE coerced

\* The mutant of ValidateMerge: the emptiness checks are left out.
ValidateMergeNoEmptyCheck(pos_df, supplier_df) ==
    IF ~HasColumn(pos_df, KeyColumn)
    THEN MergeError("POS", "missing_column", "UPC column not found in POS data")
    ELSE IF ~HasColumn(supplier_df, KeyColumn)
    THEN MergeError("Supplier", "missing_column", "UPC column not found in Supplier data")
    ELSE MergeOk(NoFrame, NoFrame, NoFrame)

\* Lines 316-326: the first failing validation, or ok.
ValidateMerge(pos_df, supplier_df) ==
    IF is_empty(pos_df)
    THEN MergeError("POS", "empty", "POS DataFrame is empty")
    ELSE IF is_empty(supplier_df)
    THEN MergeError("Supplier", "empty", "Supplier DataFrame is empty")
    ELSE IF ~HasColumn(pos_df, KeyColumn)
    THEN MergeError("POS", "missing_column", "UPC column not found in POS data")
    ELSE IF ~HasColumn(supplier_df, KeyColumn)
    THEN MergeError("Supplier", "missing_column", "UPC column not found in Supplier data")
    ELSE MergeOk(NoFrame, NoFrame, NoFrame)

\* Lines 341-356: the join of the coerced tables and the unmatched rows.
MergeJoined(pos_df, supplier_df, pos, sup, merged_df) ==
    MergeOk(merged_df,
            Unmatched(pos_df, pos, merged_df),
            Unmatched(supplier_df, sup, merged_df))

\* Lines 330-341: both key columns coerced, then the inner join.
MergeCoerced(pos_df, supplier_df, pos, sup) ==
    MergeJoined(pos_df, supplier_df, pos, sup, join_inner(pos, sup))

MergeChecked(pos_df, supplier_df, v) ==
    IF ~v.ok THEN v
    ELSE MergeCoerced(pos_df, supplier_df, CoerceKey(pos_df), CoerceKey(supplier_df))

perform_simple_merge(pos_df, supplier_df) ==
    MergeChecked(pos_df, supplier_df, ValidateMerge(pos_df, supplier_df))

(***************************************************************************)
(* The transform pass of main(): lines 596-702                             *)
(***************************************************************************)
\* merged_df.select(selected_columns): the chosen columns in the chosen order.
select(df, cols) ==
    [columns |-> cols,
     dtypes  |-> [i \in 1..Len(cols) |-> df.dtypes[ColIndex(df, cols[i])]],
     rows    |-> [r \in 1..Len(df.rows) |->
                     [i \in 1..Len(cols) |-> df.rows[r][ColIndex(df, cols[i])]]]]

\* Lines 610-617: the name each selected column gets (rename_columns holds the
\* columns whose text input differs from the column's name).
NewNames(selected, inputs) == [i \in 1..Len(selected) |-> inputs[selected[i]]]

HasDuplicates(sq) == \E i, j \in 1..Len(sq) : i # j /\ sq[i] = sq[j]

\* working_df.rename(rename_columns) raises when two columns would share a name.
RenameRaises(selected, inputs) == HasDuplicates(NewNames(selected, inputs))

\* Lines 620-621: working_df.rename(rename_columns)
rename(df, selected, inputs) ==
    [df EXCEPT !.columns = NewNames(selected, inputs)]

IsDigit(c) == \E d \in 1..10 : Digit[d] = c

DigitVal(c) == (CHOOSE d \in 1..10 : Digit[d] = c) - 1

RECURSIVE ParseNat(_)
ParseNat(chars) ==
    IF chars = <<>> THEN 0
    ELSE 10 * ParseNat(SubSeq(chars, 1, Len(chars) - 1)) + DigitVal(chars[Len(chars)])

AllDigits(chars) == chars # <<>> /\ \A i \in 1..Len(chars) : IsDigit(chars[i])

\* float(value) for the literals the model enters: an optional sign and digits;
\* anything else raises ValueError.
ParseFloat(chars) ==
    IF AllDigits(chars) THEN [ok |-> TRUE, n |-> ParseNat(chars)]
    ELSE IF chars # <<>> /\ chars[1] \in {"-", "+"} /\ AllDigits(Tail(chars))
    THEN [ok |-> TRUE,
          n |-> IF chars[1] = "-" THEN -ParseNat(Tail(chars)) ELSE ParseNat(Tail(chars))]
    ELSE [ok |-> FALSE, n |-> 0]

\* str.contains(value) for a literal pattern: value occurs inside the string.
Contains(hay, needle) ==
    \E i \in 0..(Len(hay) - Len(needle)) : SubSeq(hay, i + 1, i + Len(needle)) = needle

FilterOps == <<"equals", "not equals", "contains", "greater than", "less than">>

FilterRaised(df) == [ok |-> FALSE, df |-> df]

\* Lines 682-691: the predicate of an entry on one cell (num: float(value), read
\* by the numeric operators only). A null cell satisfies no predicate.
Keeps(f, num, v) ==
    /\ v.t # "null"
    /\ CASE f.operator = "equals" -> cast_utf8(v).s = f.value
         [] f.operator = "not equals" -> cast_utf8(v).s # f.value
         [] f.operator = "contains" -> Contains(cast_utf8(v).s, f.value)
         [] f.operator = "greater than" -> v.n > num.n
         [] f.operator = "less than" -> v.n < num.n

\* working_df.filter(...): the rows whose cell in column k satisfies the entry.
FilterKept(df, k, f, num) ==
    [ok |-> TRUE,
     df |-> [df EXCEPT !.rows = SelectSeq(df.rows, LAMBDA row : Keeps(f, num, row[k]))]]

\* Lines 688-691: float(value) raises on a non-number, and a number does not
\* compare with a string column.
NumericRaises(df, k, f, num) ==
    /\ f.operator \in {"greater than", "less than"}
    /\ ~num.ok \/ df.dtypes[k] # "int"

\* The mutant of ApplyFilter: a failing entry empties the table.
ApplyFilterFailEmpties(df, f) ==
    IF ~HasColumn(df, f.column) THEN [ok |-> FALSE, df |-> [df EXCEPT !.rows = <<>>]]
    ELSE IF NumericRaises(df, ColIndex(df, f.column), f, ParseFloat(f.value))
    THEN [ok |-> FALSE, df |-> [df EXCEPT !.rows = <<>>]]
    ELSE FilterKept(df, ColIndex(df, f.column), f, ParseFloat(f.value))

\* Lines 677-693: one filter entry with a non-empty value. The result is the
\* filtered table, or the table as it was when anything in the try raised: an
\* unknown column, float(value) on a non-number, a number compared to strings.
ApplyFilter(df, f) ==
    IF ~HasColumn(df, f.column) THEN FilterRaised(df)
    ELSE IF NumericRaises(df, ColIndex(df, f.column), f, ParseFloat(f.value))
    THEN FilterRaised(df)
    ELSE FilterKept(df, ColIndex(df, f.column), f, ParseFloat(f.value))

\* Lines 675-693: the filter loop from entry i on. warnings lists the entries
\* (by position) whose except clause showed "Filter error for ...".
RECURSIVE ApplyFiltersStopAtError(_, _, _, _)
\* The mutant of ApplyFilters: the first entry that raises ends the loop.
ApplyFiltersStopAtError(df, filters, i, warnings) ==
    IF i > Len(filters) THEN [df |-> df, warnings |-> warnings]
    ELSE IF filters[i].value = <<>>
    THEN ApplyFiltersStopAtError(df, filters, i + 1, warnings)
    ELSE LET r == ApplyFilter(df, filters[i]) IN
         IF r.ok THEN ApplyFiltersStopAtError(r.df, filters, i + 1, warnings)
         ELSE [df |-> df, warnings |-> Append(warnings, i)]

RECURSIVE ApplyFilters(_, _, _, _)
ApplyFilters(df, filters, i, warnings) ==
    IF i > Len(filters) THEN [df |-> df, warnings |-> warnings]
    ELSE IF filters[i].value = <<>> THEN ApplyFilters(df, filters, i + 1, warnings)
    ELSE LET r == ApplyFilter(df, filters[i]) IN
         ApplyFilters(r.df, filters, i + 1,
                      IF r.ok THEN warnings ELSE Append(warnings, i))

\* Lines 645-650: the column selectbox offers selected_columns (the original
\* names); an entry whose column is not among them shows, and takes, the first.
ShownColumn(selected, f) ==
    IF \E i \in 1..Len(selected) : selected[i] = f.column
    THEN f ELSE [f EXCEPT !.column = selected[1]]

\* Lines 633-637: the entry "Add Filter" appends.
NewFilter(selected) == [column |-> selected[1], operator |-> "equals", value |-> <<>>]

RemoveAt(sq, i) == SubSeq(sq, 1, i - 1) \o SubSeq(sq, i + 1, Len(sq))

\* Lines 627-672: the filter list after the add button, the widgets and the
\* remove buttons of this run. click is the button pressed in this run, if any.
FiltersOfRun(filters, selected, click) ==
    LET added == IF click.kind = "add_filter"
                 THEN Append(filters, NewFilter(selected)) ELSE filters
        read  == [i \in 1..Len(added) |-> ShownColumn(selected, added[i])]
    IN IF click.kind = "remove_filter" THEN RemoveAt(read, click.index) ELSE read

NoClick == [kind |-> "none", index |-> 0]

PassStored(fs, out) ==
    [status |-> "controls", stored |-> TRUE, working_df |-> out.df,
     filters |-> fs, warnings |-> out.warnings]

\* Lines 674-700: the filter loop over the list of this run, and the store.
PassFiltered(projected, fs) == PassStored(fs, ApplyFilters(projected, fs, 1, <<>>))

\* Lines 596-702, one pass. status: "warning" (no column selected: nothing is
\* computed or stored), "crashed" (rename raised out of main()), or "controls"
\* (the pass completed and stored working_df).
TransformPass(merged_df, selected, inputs, filters, click) ==
    IF selected = <<>>
    THEN [status |-> "warning", stored |-> FALSE, working_df |-> NoFrame,
          filters |-> filters, warnings |-> <<>>]
    ELSE IF RenameRaises(selected, inputs)
    THEN [status |-> "crashed", stored |-> FALSE, working_df |-> NoFrame,
          filters |-> filters, warnings |-> <<>>]
    ELSE PassFiltered(rename(select(merged_df, selected), selected, inputs),
                      FiltersOfRun(filters, selected, click))

(***************************************************************************)
(* detect_file_format and read_file_with_polars                            *)
(***************************************************************************)
\* An uploaded file: the suffix of its name; for a text file its lines (each the
\* sequence of its characters) and the encodings under which pl.read_csv raises
\* on its bytes; for a workbook the engines that can read it and its sheet.
UploadedFile(sfx, lns, bad, engs, sht) ==
    [suffix |-> sfx, lines |-> lns, bad_enc |-> bad, excel_ok |-> engs, sheet |-> sht]

\* file.name.lower(), for the suffixes the model uploads.
Lower(sfx) ==
    CASE sfx = ".CSV" -> ".csv"
      [] sfx = ".TXT" -> ".txt"
      [] sfx = ".XLSX" -> ".xlsx"
      [] OTHER -> sfx

\* The mutant of detect_file_format: an unrecognised name is read as text.
detect_file_format_guess(file) ==
    LET filename == Lower(file.suffix) IN
    IF filename = ".csv" THEN "csv"
    ELSE IF filename \in {".xlsx", ".xls"} THEN "excel"
    ELSE IF filename = ".tsv" THEN "tsv"
    ELSE "txt"

detect_file_format(file) ==
    LET filename == Lower(file.suffix) IN
    IF filename = ".csv" THEN "csv"
    ELSE IF filename \in {".xlsx", ".xls"} THEN "excel"
    ELSE IF filename = ".tsv" THEN "tsv"
    ELSE IF filename = ".txt" THEN "txt"
    ELSE "unknown"

Encodings == <<"utf-8", "utf-8-lossy", "latin-1", "cp1252">>
Separators == <<",", "\t", ";", "|">>
Engines == <<"openpyxl", "xlrd", "default">>

\* The fields of a line cut at every occurrence of the separator.
RECURSIVE Split(_, _)
Split(line, sep) ==
    IF line = <<>> THEN << <<>> >>
    ELSE LET rest == Split(Tail(line), sep) IN
         IF Head(line) = sep THEN << <<>> >> \o rest
         ELSE << <<Head(line)>> \o Head(rest) >> \o Tail(rest)

\* The characters of a field as one name.
RECURSIVE JoinChars(_)
JoinChars(chars) ==
    IF chars = <<>> THEN "" ELSE Head(chars) \o JoinChars(Tail(chars))

\* The column names of a header: a repeated name gets the reader's suffix.
HeaderNames(header) ==
    [i \in 1..Len(header) |->
        LET k == Cardinality({j \in 1..(i - 1) : header[j] = header[i]}) IN
        IF k = 0 THEN JoinChars(header[i])
        ELSE JoinChars(header[i]) \o "_duplicated_" \o Digit[k]]

ParseRaised == [ok |-> FALSE, df |-> NoFrame]

\* A delimited parse of the lines: the first line is the header; a short row is
\* padded with nulls, a row with more fields than the header raises, no line at
\* all raises; an empty field is null; a column of digit fields is Int64.
ParseDelimited(lines, sep) ==
    IF lines = <<>> THEN ParseRaised
    ELSE LET header == Split(lines[1], sep)
             body == [r \in 1..(Len(lines) - 1) |-> Split(lines[r + 1], sep)]
             field(r, c) == IF c <= Len(body[r]) THEN body[r][c] ELSE <<>>
             isInt(c) == /\ \E r \in 1..Len(body) : field(r, c) # <<>>
                         /\ \A r \in 1..Len(body) :
                               field(r, c) = <<>> \/ AllDigits(field(r, c))
             cell(r, c) == IF field(r, c) = <<>> THEN NullVal
                           ELSE IF isInt(c) THEN IntVal(ParseNat(field(r, c)))
                           ELSE StrVal(field(r, c))
         IN IF \E r \in 1..Len(body) : Len(body[r]) > Len(header)
            THEN ParseRaised
            ELSE [ok |-> TRUE,
                  df |-> DataFrame(HeaderNames(header),
                                   [c \in 1..Len(header) |->
                                       IF isInt(c) THEN "int" ELSE "str"],
                                   [r \in 1..Len(body) |->
                                       [c \in 1..Len(header) |-> cell(r, c)]])]

\* pl.read_csv(file, separator=sep, encoding=encoding, ignore_errors=True)
read_csv_polars(file, sep, encoding) ==
    IF encoding \in file.bad_enc THEN ParseRaised
    ELSE ParseDelimited(file.lines, sep)

\* Line 284 and 287: decode with replacement (never raises), then pd.read_csv.
read_csv_pandas(file, sep) == ParseDelimited(file.lines, sep)

\* Lines 246 and 263: pd.read_csv(file, encoding='utf-8', errors='replace').
\* read_csv has no parameter named errors: the call raises TypeError.
read_csv_pandas_errors_kw(file, sep) == ParseRaised

LoadOk(df, n) == [ok |-> TRUE, df |-> df, error |-> "", attempts |-> n]

\* Lines 299-301: whatever was raised is re-raised as "Could not read ...".
LoadError(fmt, text, n) ==
    [ok |-> FALSE, df |-> NoFrame, attempts |-> n,
     error |-> "Could not read " \o fmt \o " file: " \o text]

\* The mutant of ValidSeparator: any successful parse is accepted.
AnySeparator(df) == TRUE

\* Lines 276 and 288: a parse is accepted only with more than one column.
ValidSeparator(df) == Len(df.columns) > 1

\* The mutant of TxtSep: the separators as the inner loop.
TxtSepInner(i) == Separators[((i - 1) % Len(Separators)) + 1]

\* Lines 271-280: attempt i of the 16 (separator outer, encoding inner).
TxtSep(i) == Separators[((i - 1) \div Len(Encodings)) + 1]
TxtEnc(i) == Encodings[((i - 1) % Len(Encodings)) + 1]

RECURSIVE TxtFallback(_, _, _)
\* Lines 285-294: the pandas attempts from separator i on; n attempts were made.
TxtFallback(file, i, n) ==
    IF i > Len(Separators)
    THEN LoadError("TXT", "Could not determine separator for TXT file", n)
    ELSE LET r == read_csv_pandas(file, Separators[i]) IN
         IF r.ok /\ ValidSeparator(r.df) THEN LoadOk(r.df, n + 1)
         ELSE TxtFallback(file, i + 1, n + 1)

RECURSIVE TxtLadder(_, _)
TxtLadder(file, i) ==
    IF i > Len(Separators) * Len(Encodings)
    THEN TxtFallback(file, 1, i - 1)
    ELSE LET r == read_csv_polars(file, TxtSep(i), TxtEnc(i)) IN
         IF r.ok /\ ValidSeparator(r.df) THEN LoadOk(r.df, i)
         ELSE TxtLadder(file, i + 1)

RECURSIVE CsvLadder(_, _, _, _)
\* Lines 234-247 (csv) and 251-264 (tsv): the encodings in order, first success
\* wins; then the pandas call, which raises.
CsvLadder(file, fmt, sep, i) ==
    IF i > Len(Encodings)
    THEN LET r == read_csv_pandas_errors_kw(file, sep) IN
         IF r.ok THEN LoadOk(r.df, i)
         ELSE LoadError(fmt, "read_csv() got an unexpected keyword argument 'errors'", i)
    ELSE LET r == read_csv_polars(file, sep, Encodings[i]) IN
         IF r.ok THEN LoadOk(r.df, i) ELSE CsvLadder(file, fmt, sep, i + 1)

RECURSIVE ExcelLadder(_, _)
\* Lines 213-230: openpyxl, then xlrd, then the default engine.
ExcelLadder(file, i) ==
    IF i > Len(Engines) THEN LoadError("EXCEL", "Excel file could not be read", i - 1)
    ELSE IF Engines[i] \in file.excel_ok THEN LoadOk(file.sheet, i)
    ELSE ExcelLadder(file, i + 1)

read_file_with_polars(file, file_format) ==
    CASE file_format = "excel" -> ExcelLadder(file, 1)
      [] file_format = "csv" -> CsvLadder(file, "CSV", ",", 1)
      [] file_format = "tsv" -> CsvLadder(file, "TSV", "\t", 1)
      [] file_format = "txt" -> TxtLadder(file, 1)
      [] OTHER -> LoadError("UNKNOWN", "Unsupported file format: unknown", 0)

(***************************************************************************)
(* create_excel_with_sheets and the export step of main()                  *)
(***************************************************************************)
\* pd.DataFrame({'Message': [text]}): one cell holding the whole message.
Placeholder(text) == DataFrame(<<"Message">>, <<"str">>, << <<StrVal(<<text>>)>> >>)

\* The mutant of SheetOf: the table is written as it is, empty or not.
SheetOfNoPlaceholder(name, df, text) == [name |-> name, df |-> df]

\* Lines 376-410: one sheet, the table or its placeholder when it has no rows.
SheetOf(name, df, text) ==
    [name |-> name, df |-> IF ~is_empty(df) THEN df ELSE Placeholder(text)]

create_excel_with_sheets(merged_df, unmatched_pos, unmatched_supplier) ==
    << SheetOf("Merged Data", merged_df, "No merged data available"),
       SheetOf("Unmatched from POS", unmatched_pos, "No unmatched POS records"),
       SheetOf("Unmatched from Supplier", unmatched_supplier,
               "No unmatched Supplier records") >>

ExportFormats == <<"Excel (.xlsx)", "JSON (.json)", "Parquet (.parquet)">>

NoDownload == [file_name |-> "", sheets |-> <<>>]

\* The format radio of a run in which no export is generated.
NoFormat == ""

\* Lines 718-763: the file behind the download button, for the chosen format.
GenerateExport(fmt, ss) ==
    IF fmt = "Excel (.xlsx)"
    THEN [file_name |-> "Data_Merger_V3_Export.xlsx",
          sheets |-> create_excel_with_sheets(ss.working_df, ss.unmatched_pos,
                                              ss.unmatched_supplier)]
    ELSE IF fmt = "JSON (.json)"
    THEN [file_name |-> "Data_Merger_V3_Export.json",
          sheets |-> << [name |-> "", df |-> ss.working_df] >>]
    ELSE [file_name |-> "Data_Merger_V3_Export.parquet",
          sheets |-> << [name |-> "", df |-> ss.working_df] >>]

(***************************************************************************)
(* main(): one run of the script                                           *)
(***************************************************************************)
\* st.session_state before anything is stored.
EmptySession ==
    [keys |-> {}, merged_df |-> NoFrame, unmatched_pos |-> NoFrame,
     unmatched_supplier |-> NoFrame, original_columns |-> <<>>,
     merge_success |-> FALSE, filters |-> <<>>, working_df |-> NoFrame]

\* The mutant of MergeStored: the unmatched POS rows of the session are kept.
MergeStoredPartial(ss, m) ==
    IF ~m.ok THEN [outcome |-> "failed", ss |-> ss]
    ELSE [outcome |-> "ok",
          ss |-> [ss EXCEPT
                    !.keys = @ \cup {"merged_df", "unmatched_supplier",
                                     "original_columns", "merge_success"},
                    !.merged_df = m.merged,
                    !.unmatched_supplier = m.unmatched_supplier,
                    !.original_columns = m.merged.columns,
                    !.merge_success = TRUE]]

\* Lines 548-553: the results of the merge stored in the session.
MergeStored(ss, m) ==
    IF ~m.ok THEN [outcome |-> "failed", ss |-> ss]
    ELSE [outcome |-> "ok",
          ss |-> [ss EXCEPT
                    !.keys = @ \cup {"merged_df", "unmatched_pos", "unmatched_supplier",
                                     "original_columns", "merge_success"},
                    !.merged_df = m.merged,
                    !.unmatched_pos = m.unmatched_pos,
                    !.unmatched_supplier = m.unmatched_supplier,
                    !.original_columns = m.merged.columns,
                    !.merge_success = TRUE]]

\* The mutant of MergeLoaded: a failed merge withdraws the success flag.
MergeLoadedClears(ss, pos, sup) ==
    IF ~pos.ok \/ ~sup.ok
    THEN [outcome |-> "failed", ss |-> [ss EXCEPT !.merge_success = FALSE]]
    ELSE IF is_empty(pos.df) \/ is_empty(sup.df)
    THEN [outcome |-> "stopped", ss |-> ss]
    ELSE IF ~HasColumn(pos.df, KeyColumn) \/ ~HasColumn(sup.df, KeyColumn)
    THEN [outcome |-> "stopped", ss |-> ss]
    ELSE MergeStored(ss, perform_simple_merge(pos.df, sup.df))

\* Lines 519-553, with both files read (pos, sup: what the loader returned).
MergeLoaded(ss, pos, sup) ==
    IF ~pos.ok \/ ~sup.ok THEN [outcome |-> "failed", ss |-> ss]
    ELSE IF is_empty(pos.df) \/ is_empty(sup.df)
    THEN [outcome |-> "stopped", ss |-> ss]
    ELSE IF ~HasColumn(pos.df, KeyColumn) \/ ~HasColumn(sup.df, KeyColumn)
    THEN [outcome |-> "stopped", ss |-> ss]
    ELSE MergeStored(ss, perform_simple_merge(pos.df, sup.df))

\* Lines 507-572: the "Perform Merge" button. outcome: "ok" (the results are
\* stored), "failed" (an exception reached line 560: the run goes on), "stopped"
\* (st.stop() at lines 520-537: the run ends there).
MergeStep(ss, pos_file, supplier_file) ==
    MergeLoaded(ss,
                read_file_with_polars(pos_file, detect_file_format(pos_file)),
                read_file_with_polars(supplier_file, detect_file_format(supplier_file)))

HiddenPass == [status |-> "hidden", stored |-> FALSE, working_df |-> NoFrame,
               filters |-> <<>>, warnings |-> <<>>]

\* Lines 704-767 and the end of the run. ss2: the session after the studio;
\* pass: what the studio did; sel, inputs: the widget values the run read.
ExportStep(outcome, ss2, pass, sel, inputs, click, fmt) ==
    LET \* Line 705: the export section, unless the run never reached it.
        export == pass.status \in {"warning", "controls"} /\ "working_df" \in ss2.keys
        exported == export /\ click.kind = "export"
    IN [session_state |-> ss2,
        selected_columns |-> sel,
        \* A text input that a rendered studio did not show starts over.
        rename_inputs |->
            IF pass.status = "hidden" THEN inputs
            ELSE [c \in DOMAIN inputs |->
                    IF \E i \in 1..Len(sel) : sel[i] = c THEN inputs[c] ELSE c],
        shown |-> [merge |-> outcome,
                   step2 |-> pass.status,
                   step3 |-> export,
                   warnings |-> pass.warnings,
                   exported |-> exported,
                   download |-> IF exported THEN GenerateExport(fmt, ss2)
                                ELSE NoDownload]]

\* Line 700: the view (and the filter list the widgets wrote) is stored when the
\* pass reaches it.
StoreStep(outcome, ss1, pass, sel, inputs, click, fmt) ==
    ExportStep(outcome,
               IF pass.stored
               THEN [ss1 EXCEPT !.keys = @ \cup {"working_df"},
                                !.working_df = pass.working_df,
                                !.filters = pass.filters]
               ELSE ss1,
               pass, sel, inputs, click, fmt)

\* Lines 577-702: the studio, rendered after a successful merge unless the run
\* was stopped. sel: the multiselect's value in this run.
StudioStep(outcome, ss1, studio, sel, inputs, filters, click, fmt) ==
    StoreStep(outcome, ss1,
              IF studio THEN TransformPass(ss1.merged_df, sel, inputs, filters, click)
              ELSE HiddenPass,
              sel, inputs, click, fmt)

\* Lines 588-594: a multiselect shown for the first time, or whose options
\* changed, starts from its default, every column.
SelectStep(step1, ss0, sel0, inputs, filters, click, fmt) ==
    StudioStep(step1.outcome, step1.ss,
               step1.outcome # "stopped" /\ step1.ss.merge_success
                   /\ "merged_df" \in step1.ss.keys,
               IF step1.outcome = "stopped" THEN sel0
               ELSE IF ~ss0.merge_success
                       \/ step1.ss.merged_df.columns # ss0.merged_df.columns
               THEN step1.ss.merged_df.columns
               ELSE sel0,
               inputs, filters, click, fmt)

\* One run of main(). click: the button pressed (or none); sel0, inputs, filters,
\* fmt: the widget values of this run. The result is the session state after the
\* run, the widget values the run ends with, and what it rendered.
Script(ss0, click, sel0, inputs, filters, fmt) ==
    SelectStep(IF click.kind = "merge"
               THEN MergeStep(ss0, click.pos_file, click.supplier_file)
               ELSE [outcome |-> "", ss |-> ss0],
               ss0, sel0, inputs, filters, click, fmt)

(***************************************************************************)
(* The bounded files given to read_file_with_polars                        *)
(***************************************************************************)
LineChars == {"a", ",", ";"}

TextLines == UNION {[1..n -> LineChars] : n \in 1..MaxLine}

\* An empty file, a header alone, or a header and one data line.
TextContents == {<<>>} \cup {<<h>> : h \in TextLines}
                  \cup {<<h, d>> : h \in TextLines, d \in TextLines}

\* The encodings that raise: none; the one polars does not know; all but
\* latin-1; all four.
BadEncSets ==
    {{}, {"utf-8-lossy"}, {"utf-8", "utf-8-lossy", "cp1252"}, SeqRange(Encodings)}

TextSuffixes == {".txt", ".TXT", ".csv", ".CSV", ".tsv", ".dat", ".json"}

Sheet == DataFrame(<<"UPC">>, <<"int">>, << <<IntVal(1)>> >>)

LoadFiles ==
    {UploadedFile(sfx, lns, bad, {}, NoFrame) :
        sfx \in TextSuffixes, lns \in TextContents, bad \in BadEncSets}
    \cup {UploadedFile(sfx, <<>>, {}, engs, Sheet) :
            sfx \in {".xlsx", ".xls", ".XLSX"}, engs \in SUBSET SeqRange(Engines)}

(***************************************************************************)
(* The bounded tables given to perform_simple_merge                        *)
(***************************************************************************)
IntKeys == {NullVal, IntVal(1), IntVal(12)}
StrKeys == {NullVal, StrVal(<<"1">>), StrVal(<<"1", "2">>)}

KeysOf(dt) == IF dt = "int" THEN IntKeys ELSE StrKeys

\* POS tables: UPC first, then Qty holding the row's position in the input.
PosTables ==
    {DataFrame(<<"UPC", "Qty">>, <<dt, "int">>,
               [i \in 1..k |-> <<keys[i], IntVal(i)>>]) :
        <<dt, k, keys>> \in
            UNION {UNION {{<<d, m, f>> : f \in [1..m -> KeysOf(d)]} : m \in 0..MaxRows} :
                   d \in {"int", "str"}}}
    \cup {DataFrame(<<"Qty">>, <<"int">>, [i \in 1..k |-> <<IntVal(i)>>]) :
            k \in 0..MaxRows}

\* Supplier tables: Price (the row's position) first, then UPC.
SupTables ==
    {DataFrame(<<"Price", "UPC">>, <<"int", dt>>,
               [i \in 1..k |-> <<IntVal(i), keys[i]>>]) :
        <<dt, k, keys>> \in
            UNION {UNION {{<<d, m, f>> : f \in [1..m -> KeysOf(d)]} : m \in 0..MaxRows} :
                   d \in {"int", "str"}}}
    \cup {DataFrame(<<"Price">>, <<"int">>, [i \in 1..k |-> <<IntVal(i)>>]) :
            k \in 0..MaxRows}

(***************************************************************************)
(* The bounded inputs given to one transform pass                          *)
(***************************************************************************)
\* A merged table: string keys (the join's coerced UPC) and an integer column
\* with a null.
PassTable ==
    DataFrame(<<"UPC", "Qty">>, <<"str", "int">>,
              << <<StrVal(<<"5">>), IntVal(5)>>,
                 <<StrVal(<<"1", "5">>), IntVal(7)>>,
                 <<StrVal(<<"x", "5">>), NullVal>>,
                 <<StrVal(<<"7">>), IntVal(3)>> >>)

\* What the multiselect can return for PassTable.
PassSelections ==
    {<<>>, <<"UPC">>, <<"Qty">>, <<"UPC", "Qty">>, <<"Qty", "UPC">>}

\* What the rename text inputs can hold: the column's own name (the default), a
\* fresh name, or the other column's name.
PassRenames ==
    {[c \in {"UPC", "Qty"} |-> IF c = "UPC" THEN u ELSE q] :
        u \in {"UPC", "Item"}, q \in {"Qty", "Item", "UPC"}}

\* The literals typed into a filter's value box: none, a number, a non-number.
FilterValues == {<<>>, <<"5">>, <<"x">>}

FilterEntries ==
    [column : {"UPC", "Qty"}, operator : SeqRange(FilterOps), value : FilterValues]

FilterLists == UNION {[1..n -> FilterEntries] : n \in 0..MaxFilters}

(***************************************************************************)
(* The files, selections and literals of the session's user                *)
(***************************************************************************)
TextFile(sfx, lns, bad) == UploadedFile(sfx, lns, bad, {}, NoFrame)

HeaderUPC == <<"U", "P", "C">>
HeaderUPCPrice == <<"U", "P", "C", ",", "P", "r", "i", "c", "e">>

\* POS files: two key lists, a header without rows, a file without the key
\* column, and a file no encoding can read.
SessionPosFiles ==
    {TextFile(".csv", <<HeaderUPC, <<"5">>, <<"7">>>>, {"utf-8-lossy"}),
     TextFile(".csv", <<HeaderUPC, <<"5">>>>, {"utf-8-lossy"}),
     TextFile(".csv", <<HeaderUPC>>, {"utf-8-lossy"}),
     TextFile(".csv", <<<<"Q", "t", "y">>, <<"5">>>>, {"utf-8-lossy"}),
     TextFile(".csv", <<HeaderUPC, <<"5">>>>, SeqRange(Encodings))}

\* Supplier files: two price lists and a text file with no delimiter.
SessionSupFiles ==
    {TextFile(".txt", <<HeaderUPCPrice, <<"5", ",", "3">>, <<"9", ",", "8">>>>,
              {"utf-8-lossy"}),
     TextFile(".txt", <<HeaderUPCPrice, <<"7", ",", "5">>>>, {"utf-8-lossy"}),
     TextFile(".txt", <<HeaderUPC, <<"5">>>>, {"utf-8-lossy"})}

\* The columns a merged table of these files has.
SessionColumns == {"UPC", "Price"}

\* What the multiselect can return.
SessionSelections ==
    {<<>>, <<"UPC">>, <<"Price">>, <<"UPC", "Price">>, <<"Price", "UPC">>}

\* What the user types into a rename text input: a fresh name or the key's name.
SessionNames == {"Item", "UPC"}

\* What the user types into a filter's value box.
SessionValues == {<<>>, <<"5">>}

\* The operators the user picks for a filter.
SessionOps == {"equals", "greater than"}

(***************************************************************************)
(* Specifications                                                          *)
(***************************************************************************)
NoResult == [ok |-> FALSE, table |-> "", kind |-> "not_run", msg |-> "",
             merged |-> NoFrame, unmatched_pos |-> NoFrame,
             unmatched_supplier |-> NoFrame]

NoPass == [status |-> "not_run", stored |-> FALSE, working_df |-> NoFrame,
           filters |-> <<>>, warnings |-> <<>>]

IdleMerge == pos_in = NoFrame /\ sup_in = NoFrame /\ merge_out = NoResult

IdlePass == pass_in = NoPass /\ pass_out = NoPass

NoFile == UploadedFile("", <<>>, {}, {}, NoFrame)

NoLoad == [ok |-> FALSE, df |-> NoFrame, error |-> "not_run", attempts |-> 0]

IdleLoad == load_in = NoFile /\ load_out = NoLoad

NoTables == [merged_df |-> NoFrame, unmatched_pos |-> NoFrame,
             unmatched_supplier |-> NoFrame]

\* The value of export_out before create_excel_with_sheets is called.
NoExport == <<>>

IdleExport == export_in = NoTables /\ export_out = NoExport

NothingShown == [merge |-> "", step2 |-> "hidden", step3 |-> FALSE, warnings |-> <<>>,
                 exported |-> FALSE, download |-> NoDownload]

\* The session as the first run of the script leaves it: nothing uploaded.
InitSession ==
    /\ session_state = EmptySession
    /\ selected_columns = <<>>
    /\ rename_inputs = [c \in SessionColumns |-> c]
    /\ shown = NothingShown

\* SpecMerge: perform_simple_merge called on every pair of bounded tables.
InitMerge ==
    /\ pos_in \in PosTables
    /\ sup_in \in SupTables
    /\ merge_out = NoResult
    /\ IdlePass /\ IdleLoad /\ IdleExport /\ InitSession

\* One call perform_simple_merge(pos_df, supplier_df).
CallMerge ==
    /\ merge_out = NoResult
    /\ merge_out' = perform_simple_merge(pos_in, sup_in)
    /\ UNCHANGED <<pos_in, sup_in, passVars, loadVars, exportVars, sessionVars>>

NextMerge == CallMerge

SpecMerge == InitMerge /\ [][NextMerge]_vars

\* SpecTransform: one transform pass on every combination of bounded inputs.
InitTransform ==
    /\ pass_in \in [merged_df : {PassTable}, selected : PassSelections,
                    inputs : PassRenames, filters : FilterLists]
    /\ pass_out = NoPass
    /\ IdleMerge /\ IdleLoad /\ IdleExport /\ InitSession

\* One pass of lines 596-702 with no button pressed.
CallTransform ==
    /\ pass_in # NoPass /\ pass_out = NoPass
    /\ pass_out' = TransformPass(pass_in.merged_df, pass_in.selected, pass_in.inputs,
                                 pass_in.filters, NoClick)
    /\ UNCHANGED <<pass_in, mergeVars, loadVars, exportVars, sessionVars>>

NextTransform == CallTransform

SpecTransform == InitTransform /\ [][NextTransform]_vars

\* SpecLoad: the loader called on every bounded file.
InitLoad ==
    /\ load_in \in LoadFiles
    /\ load_out = NoLoad
    /\ IdleMerge /\ IdlePass /\ IdleExport /\ InitSession

\* One call read_file_with_polars(file, detect_file_format(file)).
CallLoad ==
    /\ load_in # NoFile /\ load_out = NoLoad
    /\ load_out' = read_file_with_polars(load_in, detect_file_format(load_in))
    /\ UNCHANGED <<load_in, mergeVars, passVars, exportVars, sessionVars>>

NextLoad == CallLoad

SpecLoad == InitLoad /\ [][NextLoad]_vars

\* SpecExport: create_excel_with_sheets called on every triple of bounded
\* tables: no columns at all, columns without rows, or 1..MaxSheetRows rows.
ExportTables(col) ==
    {NoFrame}
    \cup {DataFrame(<<"UPC", col>>, <<"str", "int">>,
                    [r \in 1..n |-> <<StrVal(<<"5">>), IntVal(r)>>]) :
            n \in 0..MaxSheetRows}

InitExport ==
    /\ export_in \in [merged_df : ExportTables("Price"),
                      unmatched_pos : ExportTables("Qty"),
                      unmatched_supplier : ExportTables("Cost")]
    /\ export_out = NoExport
    /\ IdleMerge /\ IdlePass /\ IdleLoad /\ InitSession

CallExport ==
    /\ export_out = NoExport
    /\ export_out' = create_excel_with_sheets(export_in.merged_df,
                                              export_in.unmatched_pos,
                                              export_in.unmatched_supplier)
    /\ UNCHANGED <<export_in, mergeVars, passVars, loadVars, sessionVars>>

NextExport == CallExport

SpecExport == InitExport /\ [][NextExport]_vars

\* Spec: the session. Every user interaction is one run of the script.
Init == InitSession /\ IdleMerge /\ IdlePass /\ IdleLoad /\ IdleExport

\* The state after one run.
Commit(run) ==
    /\ session_state' = run.session_state
    /\ selected_columns' = run.selected_columns
    /\ rename_inputs' = run.rename_inputs
    /\ shown' = run.shown
    /\ UNCHANGED <<mergeVars, passVars, loadVars, exportVars>>

RunScript(click, sel, inputs, filters, fmt) ==
    Commit(Script(session_state, click, sel, inputs, filters, fmt))

Button(kind) == [kind |-> kind, index |-> 0, pos_file |-> NoFile, supplier_file |-> NoFile]

\* The user uploads two files and presses "Perform Merge" (line 507).
ClickMerge ==
    \E pf \in SessionPosFiles, sf \in SessionSupFiles :
        RunScript([Button("merge") EXCEPT !.pos_file = pf, !.supplier_file = sf],
                  selected_columns, rename_inputs, session_state.filters, NoFormat)

\* The user replaces an uploaded file: a run with no button pressed.
UploadFile ==
    RunScript(Button("none"), selected_columns, rename_inputs,
              session_state.filters, NoFormat)

\* The user changes the column multiselect (lines 589-594).
ChangeSelection ==
    /\ shown.step2 # "hidden"
    /\ \E sel \in SessionSelections :
          /\ sel # selected_columns
          /\ SeqRange(sel) \subseteq SeqRange(session_state.merged_df.columns)
          /\ RunScript(Button("none"), sel, rename_inputs,
                       session_state.filters, NoFormat)

\* The user types a new name for a selected column (line 615).
EditRename ==
    /\ shown.step2 \in {"controls", "crashed"}
    /\ \E c \in SeqRange(selected_columns) : \E name \in SessionNames \cup {c} :
          /\ name # rename_inputs[c]
          /\ RunScript(Button("none"), selected_columns,
                       [rename_inputs EXCEPT ![c] = name],
                       session_state.filters, NoFormat)

\* The user presses "Add Filter" (line 632).
AddFilter ==
    /\ shown.step2 = "controls"
    /\ Len(session_state.filters) < MaxSessionFilters
    /\ RunScript(Button("add_filter"), selected_columns, rename_inputs,
                 session_state.filters, NoFormat)

\* The user changes a widget of filter i (lines 645-664): its column, its
\* operator or its value.
EditFilter ==
    /\ shown.step2 = "controls"
    /\ \E i \in 1..Len(session_state.filters) :
          \E f \in [column : SeqRange(selected_columns),
                    operator : SessionOps, value : SessionValues] :
              /\ f # session_state.filters[i]
              /\ \/ /\ f.operator = session_state.filters[i].operator
                    /\ f.value = session_state.filters[i].value
                 \/ /\ f.column = session_state.filters[i].column
                    /\ f.value = session_state.filters[i].value
                 \/ /\ f.column = session_state.filters[i].column
                    /\ f.operator = session_state.filters[i].operator
              /\ RunScript(Button("none"), selected_columns, rename_inputs,
                           [session_state.filters EXCEPT ![i] = f], NoFormat)

\* The user presses the remove button of filter i (line 667).
RemoveFilter ==
    /\ shown.step2 = "controls"
    /\ \E i \in 1..Len(session_state.filters) :
          RunScript([Button("remove_filter") EXCEPT !.index = i], selected_columns,
                    rename_inputs, session_state.filters, NoFormat)

\* The user picks an export format (line 711) and presses "Generate Export File"
\* (line 718).
ClickExport ==
    /\ shown.step3
    /\ \E fmt \in SeqRange(ExportFormats) :
          RunScript(Button("export"), selected_columns, rename_inputs,
                    session_state.filters, fmt)

Next ==
    \/ ClickMerge
    \/ UploadFile
    \/ ChangeSelection
    \/ EditRename
    \/ AddFilter
    \/ EditFilter
    \/ RemoveFilter
    \/ ClickExport

Spec == Init /\ [][Next]_vars

(***************************************************************************)
(* Claims about perform_simple_merge (checked under SpecMerge)             *)
(***************************************************************************)
Called == merge_out # NoResult

\* Both inputs pass the validation of lines 316-326.
ValidInputs ==
    /\ ~is_empty(pos_in) /\ ~is_empty(sup_in)
    /\ HasColumn(pos_in, KeyColumn) /\ HasColumn(sup_in, KeyColumn)

\* The key of a row as the join compares it: cast to string, null -> sentinel.
CoercedKey(v) == fill_null(cast_utf8(v), Sentinel)

CoercedKeys(df) ==
    LET col == Column(df, KeyColumn) IN [i \in 1..Len(col) |-> CoercedKey(col[i])]

CountKey(df, key) ==
    Cardinality({i \in 1..Len(df.rows) : CoercedKeys(df)[i] = key})

SharedKeys == SeqRange(CoercedKeys(pos_in)) \cap SeqRange(CoercedKeys(sup_in))

RECURSIVE SumProducts(_)
SumProducts(keys) ==
    IF keys = {} THEN 0
    ELSE LET key == CHOOSE x \in keys : TRUE IN
         CountKey(pos_in, key) * CountKey(sup_in, key) + SumProducts(keys \ {key})

\* The row positions (Qty / Price cells) a result table holds, in its order.
Positions(df, name) ==
    LET col == Column(df, name) IN [i \in 1..Len(col) |-> col[i].n]

\* C1: for non-empty inputs that both hold the UPC column, the number of merged
\* rows is the sum over the shared coerced key values of (rows of A with the key)
\* x (rows of B with the key).
C1_JoinRowCount ==
    (Called /\ ValidInputs) =>
        /\ merge_out.ok
        /\ Len(merge_out.merged.rows) = SumProducts(SharedKeys)

\* C1 witness: a key held by 2 rows of A and 3 rows of B gave 6 merged rows.
C1_Witness ==
    /\ Called /\ merge_out.ok
    /\ Len(merge_out.merged.rows) = 6
    /\ \E key \in SharedKeys : CountKey(pos_in, key) = 2 /\ CountKey(sup_in, key) = 3

\* C2 as stated: with no shared key value, merged has zero rows and the unmatched
\* tables equal the tables passed in.
C2_UnmatchedEqualInputs ==
    (Called /\ ValidInputs /\ SharedKeys = {}) =>
        /\ merge_out.ok
        /\ Len(merge_out.merged.rows) = 0
        /\ merge_out.unmatched_pos = pos_in
        /\ merge_out.unmatched_supplier = sup_in

\* A table equals another up to the coercion of its key column: same columns, same
\* rows in the same order, every non-key cell unchanged, every key cell coerced.
SameUpToKeyCoercion(out, df) ==
    /\ out.columns = df.columns
    /\ Len(out.rows) = Len(df.rows)
    /\ \A r \in 1..Len(df.rows) : \A c \in 1..Len(df.columns) :
          out.rows[r][c] = IF df.columns[c] = KeyColumn
                           THEN CoercedKey(df.rows[r][c])
                           ELSE df.rows[r][c]

\* C2 (amended): with no shared key value, merged has zero rows and each unmatched
\* table is its whole input with the key column coerced (cast to string, null
\* replaced by "MISSING_UPC"); rows, order and non-key cells are the input's.
C2_UnmatchedEqualCoercedInputs ==
    (Called /\ ValidInputs /\ SharedKeys = {}) =>
        /\ merge_out.ok
        /\ Len(merge_out.merged.rows) = 0
        /\ SameUpToKeyCoercion(merge_out.unmatched_pos, pos_in)
        /\ SameUpToKeyCoercion(merge_out.unmatched_supplier, sup_in)

\* C2 witness: a merge without a shared key, one input holding a null key and the
\* other an integer key column.
C2_Witness ==
    /\ Called /\ merge_out.ok /\ SharedKeys = {}
    /\ \E i \in 1..Len(pos_in.rows) : pos_in.rows[i][1] = NullVal
    /\ Len(merge_out.unmatched_pos.rows) = Len(pos_in.rows)
    /\ \E j \in 1..Len(sup_in.rows) : sup_in.rows[j][2].t = "int"

\* The positions of the rows of df whose coerced key is not a key of merged.
RowsNotMerged(df) ==
    LET mk == SeqRange(Column(merge_out.merged, KeyColumn)) IN
    SelectSeq([i \in 1..Len(df.rows) |-> i],
              LAMBDA i : CoercedKeys(df)[i] \notin mk)

\* C3: a row of an input is in its unmatched table iff its coerced key does not
\* occur in merged's key column, in the input's order and multiplicity; if every
\* row of A has a match in B, unmatchedA has no rows.
C3_UnmatchedIsKeyDifference ==
    (Called /\ merge_out.ok) =>
        /\ Positions(merge_out.unmatched_pos, "Qty") = RowsNotMerged(pos_in)
        /\ Positions(merge_out.unmatched_supplier, "Price") = RowsNotMerged(sup_in)
        /\ CoercedKeys(merge_out.unmatched_pos)
              = [i \in 1..Len(RowsNotMerged(pos_in)) |->
                    CoercedKeys(pos_in)[RowsNotMerged(pos_in)[i]]]
        /\ (SeqRange(CoercedKeys(pos_in)) \subseteq SeqRange(CoercedKeys(sup_in)))
              => Len(merge_out.unmatched_pos.rows) = 0

\* C3 witness: merged is not empty, and two rows of A with the same key are both
\* unmatched while another row of A is matched.
C3_Witness ==
    /\ Called /\ merge_out.ok
    /\ Len(merge_out.merged.rows) > 0
    /\ Len(merge_out.unmatched_pos.rows) = 2
    /\ CoercedKeys(merge_out.unmatched_pos)[1] = CoercedKeys(merge_out.unmatched_pos)[2]
    /\ Len(pos_in.rows) = 3

\* A merged row pairs row i of A with row j of B.
Paired(i, j) ==
    \E m \in 1..Len(merge_out.merged.rows) :
        /\ merge_out.merged.rows[m][ColIndex(merge_out.merged, "Qty")] = IntVal(i)
        /\ merge_out.merged.rows[m][ColIndex(merge_out.merged, "Price")] = IntVal(j)

\* C4: keys are compared as strings with null replaced by "MISSING_UPC": a null
\* key of A pairs with every null key of B (and neither row is unmatched), and
\* keys equal as strings pair even when the column types differ.
C4_NullAndCrossTypeKeysMatch ==
    (Called /\ merge_out.ok) =>
        \A i \in 1..Len(pos_in.rows) : \A j \in 1..Len(sup_in.rows) :
            LET a == pos_in.rows[i][ColIndex(pos_in, KeyColumn)]
                b == sup_in.rows[j][ColIndex(sup_in, KeyColumn)]
            IN /\ (a.t = "null" /\ b.t = "null") =>
                      /\ Paired(i, j)
                      /\ i \notin SeqRange(Positions(merge_out.unmatched_pos, "Qty"))
                      /\ j \notin SeqRange(Positions(merge_out.unmatched_supplier, "Price"))
               /\ (a.t # "null" /\ b.t # "null" /\ cast_utf8(a).s = cast_utf8(b).s)
                      => Paired(i, j)

\* C4 witness: an integer key column joined to a string key column, with one pair
\* of null keys and one pair of keys written alike, both pairs merged.
C4_Witness ==
    /\ Called /\ merge_out.ok
    /\ \E i \in 1..Len(pos_in.rows) : \E j \in 1..Len(sup_in.rows) :
          /\ pos_in.rows[i][1] = NullVal /\ sup_in.rows[j][2] = NullVal
          /\ Paired(i, j)
    /\ \E i \in 1..Len(pos_in.rows) : \E j \in 1..Len(sup_in.rows) :
          /\ pos_in.rows[i][1] = IntVal(12) /\ sup_in.rows[j][2] = StrVal(<<"1", "2">>)
          /\ Paired(i, j)

\* The message the code raises for a fault of a table.
FaultMessage(tbl, kind) ==
    IF kind = "empty" THEN "Merge failed: " \o tbl \o " DataFrame is empty"
    ELSE "Merge failed: UPC column not found in " \o tbl \o " data"

TableOf(tbl) == IF tbl = "POS" THEN pos_in ELSE sup_in

\* C5: merge fails, returning no tables, exactly when an input is empty or lacks
\* the UPC column, and the message names a table that has the fault it reports.
C5_ValidationErrors ==
    Called =>
        /\ merge_out.ok <=> ValidInputs
        /\ ~merge_out.ok =>
              /\ merge_out.table \in {"POS", "Supplier"}
              /\ merge_out.kind \in {"empty", "missing_column"}
              /\ merge_out.msg = FaultMessage(merge_out.table, merge_out.kind)
              /\ merge_out.kind = "empty" => is_empty(TableOf(merge_out.table))
              /\ merge_out.kind = "missing_column"
                    => ~HasColumn(TableOf(merge_out.table), KeyColumn)
              /\ merge_out.merged = NoFrame
              /\ merge_out.unmatched_pos = NoFrame
              /\ merge_out.unmatched_supplier = NoFrame

\* C5 witness: a non-empty POS table with the key and an empty Supplier table;
\* the merge failed naming the Supplier table.
C5_Witness ==
    /\ Called /\ ~merge_out.ok
    /\ ~is_empty(pos_in) /\ HasColumn(pos_in, KeyColumn)
    /\ is_empty(sup_in) /\ HasColumn(sup_in, KeyColumn)
    /\ merge_out.table = "Supplier"

(***************************************************************************)
(* Claims about the transform pass (checked under SpecTransform)           *)
(***************************************************************************)
PassRan == pass_out # NoPass

\* The table the filter loop starts from: projection, then rename.
Projected == select(pass_in.merged_df, pass_in.selected)

Renamed ==
    [Projected EXCEPT !.columns =
        [i \in 1..Len(pass_in.selected) |-> pass_in.inputs[pass_in.selected[i]]]]

\* C7: a filter on a selected column that was renamed (with a non-empty value, and
\* an operator and literal that are valid for that column) is applied to the
\* renamed table without a warning, and alone it removes exactly the rows that
\* fail its predicate on that column.
C7_FilterOnRenamedColumn ==
    (PassRan /\ pass_out.status = "controls") =>
        \A i \in 1..Len(pass_out.filters) :
            LET f == pass_out.filters[i]
                n == pass_in.inputs[f.column]
            IN (f.value # <<>> /\ n # f.column /\ ApplyFilter(Projected, f).ok) =>
                  /\ i \notin SeqRange(pass_out.warnings)
                  /\ Len(pass_out.filters) = 1 =>
                        pass_out.working_df
                            = ApplyFilter(Renamed, [f EXCEPT !.column = n]).df

\* An entry that the loop applies / that raises, on the renamed table (columns
\* and dtypes do not change while rows are filtered).
EntryRaises(f) == f.value # <<>> /\ ~ApplyFilter(Renamed, f).ok

EntryApplies(f) == f.value # <<>> /\ ApplyFilter(Renamed, f).ok

RowPasses(f, row) ==
    ApplyFilter([Renamed EXCEPT !.rows = <<row>>], f).df.rows # <<>>

\* C8: in a pass with a selection and no rename collision, the entries that warn
\* are exactly the entries with a non-empty value that raise; the stored view
\* holds, in order, exactly the rows that pass every entry that applies (so a
\* raising entry and an entry with an empty value change nothing, and every
\* other entry is applied); and the pass stores the view.
C8_FilterFailuresIsolated ==
    (PassRan /\ pass_in.selected # <<>>
        /\ ~HasDuplicates(Renamed.columns)) =>
        /\ pass_out.status = "controls" /\ pass_out.stored
        /\ pass_out.warnings
              = SelectSeq([i \in 1..Len(pass_out.filters) |-> i],
                          LAMBDA i : EntryRaises(pass_out.filters[i]))
        /\ pass_out.working_df.columns = Renamed.columns
        /\ pass_out.working_df.rows
              = SelectSeq(Renamed.rows,
                          LAMBDA row : \A i \in 1..Len(pass_out.filters) :
                              EntryApplies(pass_out.filters[i])
                                  => RowPasses(pass_out.filters[i], row))

\* C8 witness: the first entry raised (a warning), the second was applied and
\* removed some but not all rows, and the view was stored.
C8_Witness ==
    /\ PassRan /\ pass_out.stored
    /\ Len(pass_out.filters) = 2
    /\ pass_out.warnings = <<1>>
    /\ Len(pass_out.working_df.rows) \in 1..(Len(Renamed.rows) - 1)

\* The orders in which n entries can be listed.
FilterOrders(n) ==
    {p \in [1..n -> 1..n] : \A i, j \in 1..n : i # j => p[i] # p[j]}

\* The filter list of the pass in the order p.
Reordered(p) == [i \in 1..Len(pass_out.filters) |-> pass_out.filters[p[i]]]

\* C16: in a pass that stored a view, the filter loop run on any reordering of
\* the same entries gives the same table (the same rows in the same relative
\* order) and warns for the same entries.
C16_FilterOrderIndependent ==
    (PassRan /\ pass_out.stored) =>
        \A p \in FilterOrders(Len(pass_out.filters)) :
            LET out == ApplyFilters(Renamed, Reordered(p), 1, <<>>) IN
            /\ out.df = pass_out.working_df
            /\ {p[out.warnings[w]] : w \in 1..Len(out.warnings)}
                  = SeqRange(pass_out.warnings)

\* C16 witness: two different entries that both apply, each removing rows the
\* other keeps, and a view that holds the rows passing both.
C16_Witness ==
    /\ PassRan /\ pass_out.stored
    /\ Len(pass_out.filters) = 2
    /\ pass_out.warnings = <<>>
    /\ EntryApplies(pass_out.filters[1]) /\ EntryApplies(pass_out.filters[2])
    /\ Len(pass_out.working_df.rows)
          < Len(ApplyFilter(Renamed, pass_out.filters[1]).df.rows)
    /\ Len(pass_out.working_df.rows)
          < Len(ApplyFilter(Renamed, pass_out.filters[2]).df.rows)
    /\ pass_out.working_df.rows # <<>>

(***************************************************************************)
(* Claims about the loader (checked under SpecLoad)                        *)
(***************************************************************************)
Loaded == load_out # NoLoad

IsTxt == Loaded /\ detect_file_format(load_in) = "txt"

\* The number of fields of a line under a separator: one more than the number
\* of separator characters in it.
FieldCount(line, sep) == 1 + Cardinality({i \in 1..Len(line) : line[i] = sep})

\* The file parses under the separator (it has a header and no row is longer
\* than the header) into more than one column.
Delimits(sep) ==
    /\ load_in.lines # <<>>
    /\ \A r \in 2..Len(load_in.lines) :
          FieldCount(load_in.lines[r], sep) <= FieldCount(load_in.lines[1], sep)
    /\ FieldCount(load_in.lines[1], sep) > 1

\* C10: for txt, a returned table has more than one column; the table is the
\* parse under the first separator of the list that gives more than one column
\* (a one-column parse does not end the ladder); with no such separator the load
\* fails with "Could not determine separator"; a file delimited by ';' loads
\* with more than one column.
C10_TxtNeverOneColumn ==
    IsTxt =>
        /\ load_out.ok => Len(load_out.df.columns) > 1
        /\ load_out.ok <=> \E i \in 1..Len(Separators) : Delimits(Separators[i])
        /\ load_out.ok =>
              \E i \in 1..Len(Separators) :
                  /\ Delimits(Separators[i])
                  /\ \A j \in 1..(i - 1) : ~Delimits(Separators[j])
                  /\ Len(load_out.df.columns) = FieldCount(load_in.lines[1], Separators[i])
        /\ ~load_out.ok =>
              load_out.error
                  = "Could not read TXT file: Could not determine separator for TXT file"
        /\ Delimits(";") => (load_out.ok /\ Len(load_out.df.columns) > 1)

\* C10 witness: a file delimited by ';' alone, which parses to one column under
\* ',' and under tab, loaded with two columns after those attempts.
C10_Witness ==
    /\ IsTxt /\ load_out.ok
    /\ Delimits(";") /\ FieldCount(load_in.lines[1], ",") = 1
    /\ Len(load_out.df.columns) = 2
    /\ load_out.attempts > 2 * Len(Encodings)

IsDelimited == Loaded /\ detect_file_format(load_in) \in {"csv", "tsv"}

\* The load went past the four encoding attempts, into the fallback step.
FallbackReached == load_out.attempts > Len(Encodings)

\* C11: for csv and tsv, a load that reaches the fallback (every encoding attempt
\* failed) does not end in a load error: the fallback step never raises.
C11_CsvFallbackNeverRaises ==
    (IsDelimited /\ FallbackReached) => load_out.ok

\* The suffixes the loader knows, in the spellings the model uploads.
KnownSuffixes ==
    {".csv", ".CSV", ".xlsx", ".XLSX", ".xls", ".tsv", ".txt", ".TXT"}

\* C12: a file whose name has none of the known suffixes is classified as
\* unknown, and its load fails with the "unsupported format" error after no
\* parse attempt and returns no table.
C12_UnknownFormatFails ==
    (Loaded /\ load_in.suffix \notin KnownSuffixes) =>
        /\ detect_file_format(load_in) = "unknown"
        /\ ~load_out.ok
        /\ load_out.df = NoFrame
        /\ load_out.attempts = 0
        /\ load_out.error
              = "Could not read UNKNOWN file: Unsupported file format: unknown"

\* C12 witness: a well-formed comma-delimited file named *.dat was refused.
C12_Witness ==
    /\ Loaded /\ load_in.suffix = ".dat"
    /\ ParseDelimited(load_in.lines, ",").ok
    /\ load_in.bad_enc = {"utf-8-lossy"}
    /\ ~load_out.ok /\ load_out.attempts = 0

Min(S) == CHOOSE x \in S : \A y \in S : x <= y

\* The attempts of the ladder of a format, by position in the fixed order, with
\* the table each accepted attempt gives: a set of <<position, table>>.
ExcelAccepted ==
    {<<e, load_in.sheet>> : e \in {i \in 1..Len(Engines) : Engines[i] \in load_in.excel_ok}}

\* csv and tsv: the encodings in order (the fallback, position 5, raises).
DelimitedAccepted(sep) ==
    {<<e, read_csv_polars(load_in, sep, Encodings[e]).df>> :
        e \in {i \in 1..Len(Encodings) : read_csv_polars(load_in, sep, Encodings[i]).ok}}

\* txt: separator s with encoding e is attempt (s - 1) * 4 + e; fallback
\* separator s is attempt 16 + s; an attempt is accepted with more than one column.
TxtAccepted ==
    {<<(x[1] - 1) * Len(Encodings) + x[2],
       read_csv_polars(load_in, Separators[x[1]], Encodings[x[2]]).df>> :
        x \in {y \in (1..Len(Separators)) \X (1..Len(Encodings)) :
                 LET r == read_csv_polars(load_in, Separators[y[1]], Encodings[y[2]])
                 IN r.ok /\ Len(r.df.columns) > 1}}
    \cup
    {<<Len(Separators) * Len(Encodings) + sp,
       read_csv_pandas(load_in, Separators[sp]).df>> :
        sp \in {i \in 1..Len(Separators) :
                 LET r == read_csv_pandas(load_in, Separators[i])
                 IN r.ok /\ Len(r.df.columns) > 1}}

LadderAccepted ==
    CASE detect_file_format(load_in) = "excel" -> ExcelAccepted
      [] detect_file_format(load_in) = "csv" -> DelimitedAccepted(",")
      [] detect_file_format(load_in) = "tsv" -> DelimitedAccepted("\t")
      [] detect_file_format(load_in) = "txt" -> TxtAccepted
      [] OTHER -> {}

\* The length of the ladder of a format.
LadderLength ==
    CASE detect_file_format(load_in) = "excel" -> 3
      [] detect_file_format(load_in) \in {"csv", "tsv"} -> 5
      [] detect_file_format(load_in) = "txt" -> 20
      [] OTHER -> 0

\* C15: a load makes the attempts of its format in the fixed order and stops at
\* the first accepted one, whose table it returns; it reports an error only
\* when no attempt is accepted, after the whole ladder; and it never makes more
\* than 3 (excel), 5 (csv, tsv) or 20 (txt) attempts.
C15_LadderOrderedBounded ==
    Loaded =>
        /\ load_out.attempts <= LadderLength
        /\ IF LadderAccepted # {}
           THEN /\ load_out.ok
                /\ load_out.attempts = Min({a[1] : a \in LadderAccepted})
                /\ <<load_out.attempts, load_out.df>> \in LadderAccepted
           ELSE /\ ~load_out.ok
                /\ load_out.attempts = LadderLength

\* C15 witness: a text file delimited by ';' that only latin-1 decodes, returned
\* by the eleventh attempt (third separator, third encoding) of the twenty.
C15_Witness ==
    /\ IsTxt /\ load_out.ok
    /\ load_in.bad_enc = {"utf-8", "utf-8-lossy", "cp1252"}
    /\ load_out.attempts = 11
    /\ Len(load_out.df.columns) > 1

(***************************************************************************)
(* Claims about the spreadsheet export (checked under SpecExport)          *)
(***************************************************************************)
ExportCalled == export_out # NoExport

SheetNames == <<"Merged Data", "Unmatched from POS", "Unmatched from Supplier">>

NoDataMessages ==
    <<"No merged data available", "No unmatched POS records",
      "No unmatched Supplier records">>

ExportInputs ==
    <<export_in.merged_df, export_in.unmatched_pos, export_in.unmatched_supplier>>

\* A sheet of one column and one row whose only cell is the message.
IsPlaceholder(df, text) ==
    /\ Len(df.columns) = 1 /\ Len(df.rows) = 1
    /\ df.rows[1][1] = StrVal(<<text>>)

\* C13: the export writes exactly three sheets with the three names in order;
\* the sheet of an empty input (no rows) is the one-row, one-column placeholder
\* with its "no data" message, the sheet of a non-empty input holds that input.
C13_ThreeSheetsAlways ==
    ExportCalled =>
        /\ Len(export_out) = 3
        /\ \A i \in 1..3 :
              /\ export_out[i].name = SheetNames[i]
              /\ IF ExportInputs[i].rows = <<>>
                 THEN IsPlaceholder(export_out[i].df, NoDataMessages[i])
                 ELSE export_out[i].df = ExportInputs[i]

\* C13 witness: merged and unmatched-POS have rows, unmatched-Supplier has its
\* columns but no row, and the third sheet is the placeholder.
C13_Witness ==
    /\ ExportCalled
    /\ export_in.merged_df.rows # <<>> /\ export_in.unmatched_pos.rows # <<>>
    /\ export_in.unmatched_supplier.columns # <<>>
    /\ export_in.unmatched_supplier.rows = <<>>
    /\ Len(export_out) = 3
    /\ IsPlaceholder(export_out[3].df, "No unmatched Supplier records")

(***************************************************************************)
(* Claims about the session (checked under Spec)                           *)
(***************************************************************************)
\* C6: in every reachable state of the session, the run that led to it generated
\* no export file while its column selection was empty.
C6_NoExportWithEmptySelection ==
    shown.exported => selected_columns # <<>>

\* The view of the current parameters: projection, rename, filter chain on the
\* merged table held by the session (no view when the transform is rejected).
CurrentView ==
    TransformPass(session_state.merged_df, selected_columns, rename_inputs,
                  session_state.filters, NoClick).working_df

\* C9: whenever a run generates an export file, the view held by the session and
\* handed to the exporter is the projection, rename and filter chain of the
\* merged table of the latest merge under the current selection, rename inputs
\* and filter list.
C9_ExportedViewIsCurrent ==
    shown.exported => session_state.working_df = CurrentView

\* The MergeResult the session holds.
StoredResult ==
    <<session_state.merged_df, session_state.unmatched_pos,
      session_state.unmatched_supplier>>

\* The tables the loader returns for the files of an uploader.
LoadedTables(files) ==
    {r.df : r \in {x \in {read_file_with_polars(f, detect_file_format(f)) : f \in files} :
                     x.ok}}

\* The three outputs of one successful invocation of perform_simple_merge, for
\* every pair of uploaded files.
InvocationResults ==
    {<<m.merged, m.unmatched_pos, m.unmatched_supplier>> :
        m \in {x \in {perform_simple_merge(p, q) :
                        p \in LoadedTables(SessionPosFiles),
                        q \in LoadedTables(SessionSupFiles)} : x.ok}}

\* A run with a successful merge stores the three outputs of one invocation; any
\* other run leaves the three stored tables as they were.
MergeResultStep ==
    IF shown'.merge = "ok"
    THEN StoredResult' \in InvocationResults
    ELSE StoredResult' = StoredResult

\* The unmatched sheets of a spreadsheet export are the unmatched tables the
\* session holds (or their placeholders when they have no rows).
ExportsStoredUnmatched ==
    (shown.exported /\ shown.download.file_name = "Data_Merger_V3_Export.xlsx") =>
        /\ shown.download.sheets[2].df
              = IF session_state.unmatched_pos.rows # <<>>
                THEN session_state.unmatched_pos
                ELSE Placeholder("No unmatched POS records")
        /\ shown.download.sheets[3].df
              = IF session_state.unmatched_supplier.rows # <<>>
                THEN session_state.unmatched_supplier
                ELSE Placeholder("No unmatched Supplier records")

\* C14: the stored merged, unmatched-POS and unmatched-Supplier tables are always
\* the outputs of one merge invocation: a successful merge replaces the three
\* together, every other run (selection, rename, filter, export, failed merge)
\* leaves them unchanged, and the spreadsheet export writes the stored unmatched
\* tables, that is those of the most recent successful merge.
C14_MergeResultAtomic ==
    /\ [](session_state.merge_success => StoredResult \in InvocationResults)
    /\ [][MergeResultStep]_vars
    /\ []ExportsStoredUnmatched

\* C14 witness: after a merge, a filter that removed rows from the view, and a
\* spreadsheet export, the session holds a merged table and unmatched POS rows,
\* and the second sheet holds those rows.
C14_Witness ==
    /\ shown.exported /\ shown.download.file_name = "Data_Merger_V3_Export.xlsx"
    /\ session_state.merge_success
    /\ session_state.filters # <<>>
    /\ Len(session_state.working_df.rows) < Len(session_state.merged_df.rows)
    /\ session_state.unmatched_pos.rows # <<>>
    /\ shown.download.sheets[2].df = session_state.unmatched_pos

\* What a merge stores in the session (lines 549-553).
MergeKeys ==
    {"merged_df", "unmatched_pos", "unmatched_supplier", "original_columns",
     "merge_success"}

MergeState ==
    <<StoredResult, session_state.original_columns, session_state.merge_success,
      session_state.keys \cap MergeKeys>>

\* A run whose merge failed (an exception, or st.stop()) leaves everything a
\* merge stores as it was, and a studio rendered in that run works on the merged
\* table held before; a run whose merge succeeded updates all of it.
FailedMergeStep ==
    /\ shown'.merge \in {"failed", "stopped"} =>
          /\ MergeState' = MergeState
          /\ shown'.step2 = "controls" =>
                session_state'.working_df
                    = TransformPass(session_state.merged_df, selected_columns',
                                    rename_inputs', session_state'.filters,
                                    NoClick).working_df
    /\ shown'.merge = "ok" =>
          /\ StoredResult' \in InvocationResults
          /\ session_state'.original_columns = session_state'.merged_df.columns
          /\ session_state'.merge_success
          /\ MergeKeys \subseteq session_state'.keys

\* C17: a merge action that fails leaves the stored MergeResult, the original
\* column list and the merge-success flag exactly as they were (all of them are
\* updated by a successful merge, or none is), and after a failed re-merge the
\* studio and the export still have the previous successful MergeResult.
C17_FailedMergeLeavesState ==
    /\ [][FailedMergeStep]_vars
    /\ []((shown.merge \in {"failed", "stopped"} /\ session_state.merge_success)
            => (StoredResult \in InvocationResults
                /\ (shown.step3 => "working_df" \in session_state.keys)))

\* C17 witness: a re-merge failed (a file could not be loaded) in a session that
\* holds a successful merge, and the studio of that run rendered its controls.
C17_Witness ==
    /\ shown.merge = "failed"
    /\ session_state.merge_success
    /\ session_state.merged_df.rows # <<>>
    /\ shown.step2 = "controls" /\ shown.step3

====
